---- MODULE Spec2Model ----
(***************************************************************************)
(* Model of the advent-of-code-2025 repository: the helper library         *)
(* utils.py (grid accessors, permute, gcd/lcm, Dir) and the puzzle         *)
(* scripts day1.py, day2.py and day3.py.  Each part is a small state       *)
(* machine over its own variables; the parts share no state, as in the     *)
(* source, so each has its own specification (SpecGrid, SpecPermute, ...)  *)
(* in which the variables of the other parts stay at their idle values.    *)
(***************************************************************************)
EXTENDS Integers, Sequences, FiniteSets, TLC

VARIABLES
    \* utils.py grid helpers: the caller's grid and the last call made on it
    grid, gprev, gop, garg, gret,
    \* utils.py permute: its arguments, the recursion's frames, the position
    pops, pmax, pcurr, presult, pstack, ppc,
    \* utils.py gcd and lcm: the arguments, the loop's a and b, the results
    ma, mb, mx, my, mcall, mpc, mgab, mgba, mlcm,
    \* utils.py Dir: the direction held, where it started, the turns applied
    dstart, dir, dhist,
    \* day1.py: the dial, the count of zeros, the rotation being applied
    d1start, d1sol, d1dir, d1amt, d1n, d1pc,
    \* day2.py: the running sum, the range being scanned, the last verdict
    d2sol, d2n, d2end, d2k, d2verdict, d2pc,
    \* day3.py best_k_digits_in_order: arguments, locals, the value returned
    d3digits, d3k, d3stack, d3remove, d3idx, d3pops, d3res, d3pc

gridVars == <<grid, gprev, gop, garg, gret>>
permVars == <<pops, pmax, pcurr, presult, pstack, ppc>>
mathVars == <<ma, mb, mx, my, mcall, mpc, mgab, mgba, mlcm>>
dirVars == <<dstart, dir, dhist>>
day1Vars == <<d1start, d1sol, d1dir, d1amt, d1n, d1pc>>
day2Vars == <<d2sol, d2n, d2end, d2k, d2verdict, d2pc>>
day3Vars == <<d3digits, d3k, d3stack, d3remove, d3idx, d3pops, d3res, d3pc>>
vars == <<gridVars, permVars, mathVars, dirVars, day1Vars, day2Vars, day3Vars>>

Abs(n) == IF n < 0 THEN -n ELSE n

(***************************************************************************)
(* Python indexing: seq[i] accepts -len <= i < len, a negative i counting  *)
(* from the end; anything else raises IndexError.                          *)
(***************************************************************************)
PyValidIndex(i, n) == -n <= i /\ i < n
PyAt(seq, i) == IF i < 0 THEN seq[Len(seq) + i + 1] ELSE seq[i + 1]
PyPos(seq, i) == IF i < 0 THEN Len(seq) + i + 1 ELSE i + 1

(***************************************************************************)
(* Grid helpers of utils.py.  A grid is a sequence of rows, a row a        *)
(* sequence of single characters.  A call's outcome is a record: the       *)
(* value returned, None, or the IndexError raised.                         *)
(***************************************************************************)
MaxCells == 4
Chars == {"a", "b"}
NoChar == "-"

Shapes == {sh \in (0..MaxCells) \X (0..MaxCells) :
              /\ sh[1] * sh[2] <= MaxCells
              /\ (sh[1] = 0 => sh[2] = 0)}
AllGrids == UNION {[1..sh[1] -> [1..sh[2] -> Chars]] : sh \in Shapes}

RetValue(v) == [tag |-> "value", val |-> v, seq |-> <<>>]
RetNone == [tag |-> "None", val |-> NoChar, seq |-> <<>>]
RetVoid == [tag |-> "void", val |-> NoChar, seq |-> <<>>]
RetIndexError == [tag |-> "IndexError", val |-> NoChar, seq |-> <<>>]
RetCoords(s) == [tag |-> "coords", val |-> NoChar, seq |-> s]

GridRows(g) == Len(g)

GridCols(g) == IF g # <<>> THEN Len(g[1]) ELSE 0

GridIsInbound(g, rc) ==
    IF g = <<>> THEN FALSE
    ELSE LET max_r == Len(g) - 1
             max_c == Len(g[1]) - 1
         IN  0 <= rc[1] /\ rc[1] <= max_r /\ 0 <= rc[2] /\ rc[2] <= max_c

GridGet(g, r, c) ==
    IF ~PyValidIndex(r, Len(g)) THEN RetIndexError
    ELSE LET row == PyAt(g, r)
         IN  IF ~PyValidIndex(c, Len(row)) THEN RetIndexError
             ELSE RetValue(PyAt(row, c))

GridGetOrNone(g, rc) ==
    LET got == GridGet(g, rc[1], rc[2])
    IN  IF got.tag = "IndexError" THEN RetNone ELSE got

\* grid_set: the grid after the call and the call's outcome
GridSet(g, r, c, v) ==
    IF ~PyValidIndex(r, Len(g)) THEN [grid |-> g, ret |-> RetIndexError]
    ELSE LET row_list == PyAt(g, r)
         IN  IF ~PyValidIndex(c, Len(row_list))
             THEN [grid |-> g, ret |-> RetIndexError]
             ELSE [grid |-> [g EXCEPT ![PyPos(g, r)] =
                                 [row_list EXCEPT ![PyPos(row_list, c)] = v]],
                   ret |-> RetVoid]

GridSetRc(g, rc, v) == GridSet(g, rc[1], rc[2], v)

\* grid_sequence: for r in range(rows): for c in range(cols): yield (r, c)
RECURSIVE SequenceColsInclusive(_, _, _, _)
SequenceColsInclusive(r, c, cols, acc) ==
    IF c > cols THEN acc
    ELSE SequenceColsInclusive(r, c + 1, cols, Append(acc, <<r, c>>))

RECURSIVE SequenceCols(_, _, _, _)
SequenceCols(r, c, cols, acc) ==
    IF c >= cols THEN acc
    ELSE SequenceCols(r, c + 1, cols, Append(acc, <<r, c>>))

RECURSIVE SequenceRows(_, _, _, _)
SequenceRows(r, rows, cols, acc) ==
    IF r >= rows THEN acc
    ELSE SequenceRows(r + 1, rows, cols, SequenceCols(r, 0, cols, acc))

GridSequence(g) == SequenceRows(0, GridRows(g), GridCols(g), <<>>)

\* grid_swap: the grid after the call and the call's outcome
GridSwap(g, x, y) ==
    LET xv == GridGetOrNone(g, x)
        yv == GridGetOrNone(g, y)
    IN  IF xv.tag # "None" /\ yv.tag # "None"
        THEN LET s1 == GridSetRc(g, x, yv.val)
                 s2 == GridSetRc(s1.grid, y, xv.val)
             IN  IF s1.ret.tag = "IndexError" THEN s1 ELSE s2
        ELSE [grid |-> g, ret |-> RetVoid]

\* the indices a caller passes: every class of index around the grid's shape
RowIdx(g) == (-(GridRows(g) + 1))..GridRows(g)
ColIdx(g) == (-(GridCols(g) + 1))..GridCols(g)
Coords(g) == RowIdx(g) \X ColIdx(g)
NoCoord == <<0, 0>>

GridArg(x, y, v) == [x |-> x, y |-> y, v |-> v]

GridIdle ==
    /\ grid = <<>>
    /\ gprev = <<>>
    /\ gop = "none"
    /\ garg = GridArg(NoCoord, NoCoord, NoChar)
    /\ gret = RetVoid

InitGridVars ==
    /\ grid \in AllGrids
    /\ gprev = grid
    /\ gop = "none"
    /\ garg = GridArg(NoCoord, NoCoord, NoChar)
    /\ gret = RetVoid

CallGet ==
    /\ gop = "none"
    /\ \E rc \in Coords(grid) :
        /\ gop' = "get"
        /\ garg' = GridArg(rc, NoCoord, NoChar)
        /\ gret' = GridGet(grid, rc[1], rc[2])
        /\ gprev' = grid
        /\ grid' = grid

CallGetOrNone ==
    /\ gop = "none"
    /\ \E rc \in Coords(grid) :
        /\ gop' = "get_or_none"
        /\ garg' = GridArg(rc, NoCoord, NoChar)
        /\ gret' = GridGetOrNone(grid, rc)
        /\ gprev' = grid
        /\ grid' = grid

CallSet ==
    /\ gop = "none"
    /\ \E rc \in Coords(grid), v \in Chars :
        LET out == GridSet(grid, rc[1], rc[2], v)
        IN  /\ gop' = "set"
            /\ garg' = GridArg(rc, NoCoord, v)
            /\ gret' = out.ret
            /\ gprev' = grid
            /\ grid' = out.grid

CallSwap ==
    /\ gop = "none"
    /\ \E x \in Coords(grid), y \in Coords(grid) :
        LET out == GridSwap(grid, x, y)
        IN  /\ gop' = "swap"
            /\ garg' = GridArg(x, y, NoChar)
            /\ gret' = out.ret
            /\ gprev' = grid
            /\ grid' = out.grid

CallSequence ==
    /\ gop = "none"
    /\ gop' = "sequence"
    /\ garg' = GridArg(NoCoord, NoCoord, NoChar)
    /\ gret' = RetCoords(GridSequence(grid))
    /\ gprev' = grid
    /\ grid' = grid

\* the caller takes the outcome of the call and goes on with the same grid
CallerResumes ==
    /\ gop # "none"
    /\ gop' = "none"
    /\ garg' = GridArg(NoCoord, NoCoord, NoChar)
    /\ gret' = RetVoid
    /\ gprev' = grid
    /\ grid' = grid

(***************************************************************************)
(* permute of utils.py.  The alphabet ops is a set; pops is the order in   *)
(* which "for op in ops" iterates it.  pstack holds one loop index per     *)
(* active call of permute, the innermost last.                             *)
(***************************************************************************)
MaxSyms == 3
MaxLen == 3
Symbols == 1..MaxSyms

Range(f) == {f[i] : i \in DOMAIN f}
Orderings(S) == {f \in [1..Cardinality(S) -> S] : Range(f) = S}
Alphabets == UNION {Orderings(S) : S \in SUBSET Symbols}
Last(seq) == seq[Len(seq)]
Front(seq) == SubSeq(seq, 1, Len(seq) - 1)

PermIdle ==
    /\ pops = <<>>
    /\ pmax = 0
    /\ pcurr = <<>>
    /\ presult = <<>>
    /\ pstack = <<>>
    /\ ppc = "idle"

\* permute([], max_length, [], ops) is called
InitPermVars ==
    /\ pops \in Alphabets
    /\ pmax \in 0..MaxLen
    /\ pcurr = <<>>
    /\ presult = <<>>
    /\ pstack = <<0>>
    /\ ppc = "enter"

\* where a return leads: to the caller's curr.pop(), or out of the first call
AfterReturn(stack) == IF stack = <<>> THEN "done" ELSE "after_call"

\* what the base case leaves in result: list(curr), a copy.  (Appending curr
\* itself would leave every entry the one scratch list, empty at the end.)
LeafNoCopy(curr) == <<>>
LeafCopy(curr) == curr

\* if len(curr) == max_length: result.append(list(curr)); return
PermuteLeaf ==
    /\ ppc = "enter"
    /\ Len(pcurr) = pmax
    /\ presult' = Append(presult, LeafCopy(pcurr))
    /\ pstack' = Front(pstack)
    /\ ppc' = AfterReturn(pstack')
    /\ UNCHANGED <<pops, pmax, pcurr>>

\* otherwise the for loop over ops starts
PermuteLoopStart ==
    /\ ppc = "enter"
    /\ Len(pcurr) # pmax
    /\ pstack' = [pstack EXCEPT ![Len(pstack)] = 1]
    /\ ppc' = "loop"
    /\ UNCHANGED <<pops, pmax, pcurr, presult>>

\* curr.append(op); permute(curr, max_length, result, ops)
PermuteRecurse ==
    /\ ppc = "loop"
    /\ Last(pstack) <= Len(pops)
    /\ pcurr' = Append(pcurr, pops[Last(pstack)])
    /\ pstack' = Append(pstack, 0)
    /\ ppc' = "enter"
    /\ UNCHANGED <<pops, pmax, presult>>

\* curr.pop(), and on to the next op
PermutePop ==
    /\ ppc = "after_call"
    /\ pcurr' = Front(pcurr)
    /\ pstack' = [pstack EXCEPT ![Len(pstack)] = @ + 1]
    /\ ppc' = "loop"
    /\ UNCHANGED <<pops, pmax, presult>>

\* the for loop is exhausted: the call returns
PermuteLoopEnd ==
    /\ ppc = "loop"
    /\ Last(pstack) > Len(pops)
    /\ pstack' = Front(pstack)
    /\ ppc' = AfterReturn(pstack')
    /\ UNCHANGED <<pops, pmax, pcurr, presult>>

(***************************************************************************)
(* gcd and lcm of utils.py, on Python integers: % is the floored modulo    *)
(* (the result has the divisor's sign), // the floored division.  The      *)
(* calls made are gcd(a, b), gcd(b, a) and lcm(a, b), which calls          *)
(* gcd(a, b) itself.                                                        *)
(***************************************************************************)
MaxInt == 12
Ints == (-MaxInt)..MaxInt

PyMod(a, b) == IF b > 0 THEN a % b ELSE -((-a) % (-b))
PyFloorDiv(a, b) == IF b > 0 THEN a \div b ELSE (-a) \div (-b)

GcdResultNoAbs(a) == a
GcdResult(a) == Abs(a)

NoInt == [tag |-> "none", val |-> 0]
IntValue(n) == [tag |-> "value", val |-> n]
ZeroDivisionError == [tag |-> "ZeroDivisionError", val |-> 0]

MathIdle ==
    /\ ma = 0
    /\ mb = 0
    /\ mx = 0
    /\ my = 0
    /\ mcall = "idle"
    /\ mpc = "idle"
    /\ mgab = NoInt
    /\ mgba = NoInt
    /\ mlcm = NoInt

\* gcd(a, b) is called
InitMathVars ==
    /\ ma \in Ints
    /\ mb \in Ints
    /\ mx = ma
    /\ my = mb
    /\ mcall = "gcd_ab"
    /\ mpc = "loop"
    /\ mgab = NoInt
    /\ mgba = NoInt
    /\ mlcm = NoInt

\* while b != 0: a, b = b, a % b
GcdLoop ==
    /\ mpc = "loop"
    /\ my # 0
    /\ mx' = my
    /\ my' = PyMod(mx, my)
    /\ UNCHANGED <<ma, mb, mcall, mpc, mgab, mgba, mlcm>>

\* gcd(a, b) returns abs(a); gcd(b, a) is called
GcdReturnAB ==
    /\ mpc = "loop"
    /\ my = 0
    /\ mcall = "gcd_ab"
    /\ mgab' = IntValue(GcdResult(mx))
    /\ mcall' = "gcd_ba"
    /\ mx' = mb
    /\ my' = ma
    /\ UNCHANGED <<ma, mb, mpc, mgba, mlcm>>

\* gcd(b, a) returns; lcm(a, b) is called and calls gcd(a, b)
GcdReturnBA ==
    /\ mpc = "loop"
    /\ my = 0
    /\ mcall = "gcd_ba"
    /\ mgba' = IntValue(GcdResult(mx))
    /\ mcall' = "lcm"
    /\ mx' = ma
    /\ my' = mb
    /\ UNCHANGED <<ma, mb, mpc, mgab, mlcm>>

\* lcm's gcd(a, b) returns; lcm returns abs(a * b) // gcd(a, b)
LcmReturn ==
    /\ mpc = "loop"
    /\ my = 0
    /\ mcall = "lcm"
    /\ mlcm' = IF GcdResult(mx) = 0 THEN ZeroDivisionError
               ELSE IntValue(PyFloorDiv(Abs(ma * mb), GcdResult(mx)))
    /\ mpc' = "done"
    /\ UNCHANGED <<ma, mb, mx, my, mcall, mgab, mgba>>

(***************************************************************************)
(* Dir of utils.py: rotate, its alias clockwise, and counter_clockwise.    *)
(***************************************************************************)
MaxTurns == 4
Dirs == {"UP", "DOWN", "LEFT", "RIGHT"}
ValueError == "ValueError"

RotateDownRight(d) ==
    IF d = "UP" THEN "RIGHT"
    ELSE IF d = "DOWN" THEN "RIGHT"
    ELSE IF d = "LEFT" THEN "UP"
    ELSE IF d = "RIGHT" THEN "DOWN"
    ELSE ValueError

Rotate(d) ==
    IF d = "UP" THEN "RIGHT"
    ELSE IF d = "DOWN" THEN "LEFT"
    ELSE IF d = "LEFT" THEN "UP"
    ELSE IF d = "RIGHT" THEN "DOWN"
    ELSE ValueError

Clockwise(d) == Rotate(d)

CounterClockwise(d) ==
    IF d = "UP" THEN "LEFT"
    ELSE IF d = "DOWN" THEN "RIGHT"
    ELSE IF d = "LEFT" THEN "DOWN"
    ELSE IF d = "RIGHT" THEN "UP"
    ELSE ValueError

DirIdle ==
    /\ dstart = "UP"
    /\ dir = "UP"
    /\ dhist = <<>>

InitDirVars ==
    /\ dstart \in Dirs
    /\ dir = dstart
    /\ dhist = <<>>

CallRotate ==
    /\ dir \in Dirs
    /\ Len(dhist) < MaxTurns
    /\ dir' = Rotate(dir)
    /\ dhist' = Append(dhist, "rotate")
    /\ UNCHANGED dstart

CallClockwise ==
    /\ dir \in Dirs
    /\ Len(dhist) < MaxTurns
    /\ dir' = Clockwise(dir)
    /\ dhist' = Append(dhist, "clockwise")
    /\ UNCHANGED dstart

CallCounterClockwise ==
    /\ dir \in Dirs
    /\ Len(dhist) < MaxTurns
    /\ dir' = CounterClockwise(dir)
    /\ dhist' = Append(dhist, "counter_clockwise")
    /\ UNCHANGED dstart

(***************************************************************************)
(* day1.py: a dial numbered 0..99 that starts at 50.  Each line of the     *)
(* input is a direction and an amount; a direction other than "R" takes    *)
(* the else branch.                                                        *)
(***************************************************************************)
DialSize == 100
DialStart == 50
MaxAmount == 105
MaxRotations == 2

StartReflectedSame(start) == start
StartReflected(start) == (DialSize - start) % DialSize

Day1Idle ==
    /\ d1start = DialStart
    /\ d1sol = 0
    /\ d1dir = "-"
    /\ d1amt = 0
    /\ d1n = 0
    /\ d1pc = "idle"

InitDay1Vars ==
    /\ d1start = DialStart
    /\ d1sol = 0
    /\ d1dir = "-"
    /\ d1amt = 0
    /\ d1n = 0
    /\ d1pc = "next"

\* for rotation in rotations: direction = rotation[0]; amount = int(rotation[1:])
Day1Parse ==
    /\ d1pc = "next"
    /\ d1n < MaxRotations
    /\ d1dir' \in {"L", "R"}
    /\ d1amt' \in 0..MaxAmount
    /\ d1pc' = "parsed"
    /\ UNCHANGED <<d1start, d1sol, d1n>>

Day1Right ==
    /\ d1pc = "parsed"
    /\ d1dir = "R"
    /\ d1sol' = d1sol + ((d1start + d1amt) \div DialSize) - (d1start \div DialSize)
    /\ d1start' = (d1start + d1amt) % DialSize
    /\ d1n' = d1n + 1
    /\ d1pc' = "applied"
    /\ UNCHANGED <<d1dir, d1amt>>

Day1Left ==
    /\ d1pc = "parsed"
    /\ d1dir # "R"
    /\ LET start_reflected == StartReflected(d1start)
       IN  d1sol' = d1sol + ((start_reflected + d1amt) \div DialSize)
                          - (start_reflected \div DialSize)
    /\ d1start' = (d1start - d1amt) % DialSize
    /\ d1n' = d1n + 1
    /\ d1pc' = "applied"
    /\ UNCHANGED <<d1dir, d1amt>>

\* the loop goes on to the next line; direction and amount are dead until
\* the next line is parsed
Day1NextLine ==
    /\ d1pc = "applied"
    /\ d1pc' = "next"
    /\ d1dir' = "-"
    /\ d1amt' = 0
    /\ UNCHANGED <<d1start, d1sol, d1n>>

(***************************************************************************)
(* day2.py: is_invalid_id on str(n), and the loop over the ranges.         *)
(***************************************************************************)
MaxId == 125
MaxSpan == 2
MaxRanges == 2

\* str(n) for n >= 0: the decimal digits, most significant first
RECURSIVE Str(_)
Str(n) == IF n < 10 THEN <<n>> ELSE Append(Str(n \div 10), n % 10)

\* pattern * repetitions
RECURSIVE Repeat(_, _)
Repeat(pattern, times) ==
    IF times <= 0 THEN <<>> ELSE pattern \o Repeat(pattern, times - 1)

IsInvalidId(n) ==
    LET str == Str(n)
    IN  \E pattern_len \in 1..(Len(str) \div 2) :
            /\ Len(str) % pattern_len = 0
            /\ LET pattern == SubSeq(str, 1, pattern_len)
                   repetitions == Len(str) \div pattern_len
               IN  str = Repeat(pattern, repetitions) /\ repetitions >= 2

Day2Idle ==
    /\ d2sol = 0
    /\ d2n = 0
    /\ d2end = 0
    /\ d2k = 0
    /\ d2verdict = FALSE
    /\ d2pc = "idle"

InitDay2Vars ==
    /\ d2sol = 0
    /\ d2n = 0
    /\ d2end = 0
    /\ d2k = 0
    /\ d2verdict = FALSE
    /\ d2pc = "read"

\* start, end = int(start_str), int(end_str); for n in range(start, end + 1)
Day2ReadRange ==
    /\ d2pc = "read"
    /\ d2k < MaxRanges
    /\ \E start \in 1..MaxId : \E end \in (start - 1)..(start + MaxSpan) :
           /\ d2n' = start
           /\ d2end' = end
    /\ d2pc' = "scan"
    /\ UNCHANGED <<d2sol, d2k, d2verdict>>

\* if is_invalid_id(n): sol += n
Day2Test ==
    /\ d2pc = "scan"
    /\ d2n <= d2end
    /\ d2verdict' = IsInvalidId(d2n)
    /\ d2sol' = IF IsInvalidId(d2n) THEN d2sol + d2n ELSE d2sol
    /\ d2n' = d2n + 1
    /\ UNCHANGED <<d2end, d2k, d2pc>>

Day2RangeDone ==
    /\ d2pc = "scan"
    /\ d2n > d2end
    /\ d2k' = d2k + 1
    /\ d2pc' = "read"
    /\ UNCHANGED <<d2sol, d2n, d2end, d2verdict>>

\* print(sol)
Day2Print ==
    /\ d2pc = "read"
    /\ d2pc' = "done"
    /\ UNCHANGED <<d2sol, d2n, d2end, d2k, d2verdict>>

(***************************************************************************)
(* day3.py: best_k_digits_in_order(digits, k).                             *)
(***************************************************************************)
MaxBank == 5
MaxDigit == 3

PopConditionOrEqual(stack, remove, d) ==
    stack # <<>> /\ remove > 0 /\ Last(stack) <= d
\* while stack and remove > 0 and stack[-1] < d
PopCondition(stack, remove, d) ==
    stack # <<>> /\ remove > 0 /\ Last(stack) < d

\* stack[:k] for k >= 0
Prefix(seq, k) == SubSeq(seq, 1, IF k < Len(seq) THEN k ELSE Len(seq))

Day3Idle ==
    /\ d3digits = <<>>
    /\ d3k = 0
    /\ d3stack = <<>>
    /\ d3remove = 0
    /\ d3idx = 0
    /\ d3pops = 0
    /\ d3res = <<>>
    /\ d3pc = "idle"

\* best_k_digits_in_order(digits, k) is called: stack = []; remove = len - k
InitDay3Vars ==
    /\ d3digits \in UNION {[1..n -> 1..MaxDigit] : n \in 0..MaxBank}
    /\ d3k \in 0..(Len(d3digits) + 1)
    /\ d3stack = <<>>
    /\ d3remove = Len(d3digits) - d3k
    /\ d3idx = 1
    /\ d3pops = 0
    /\ d3res = <<>>
    /\ d3pc = "loop"

\* stack.pop(); remove -= 1
Day3Pop ==
    /\ d3pc = "loop"
    /\ d3idx <= Len(d3digits)
    /\ PopCondition(d3stack, d3remove, d3digits[d3idx])
    /\ d3stack' = Front(d3stack)
    /\ d3remove' = d3remove - 1
    /\ d3pops' = d3pops + 1
    /\ UNCHANGED <<d3digits, d3k, d3idx, d3res, d3pc>>

\* stack.append(d), and on to the next digit
Day3Append ==
    /\ d3pc = "loop"
    /\ d3idx <= Len(d3digits)
    /\ ~PopCondition(d3stack, d3remove, d3digits[d3idx])
    /\ d3stack' = Append(d3stack, d3digits[d3idx])
    /\ d3idx' = d3idx + 1
    /\ UNCHANGED <<d3digits, d3k, d3remove, d3pops, d3res, d3pc>>

\* return stack[:k]
Day3Return ==
    /\ d3pc = "loop"
    /\ d3idx > Len(d3digits)
    /\ d3res' = Prefix(d3stack, d3k)
    /\ d3pc' = "done"
    /\ UNCHANGED <<d3digits, d3k, d3stack, d3remove, d3idx, d3pops>>

(***************************************************************************)
(* Specifications, one per part.  A specification with WF states that the  *)
(* interpreter keeps running the call: a step that can be taken is taken.  *)
(***************************************************************************)
InitGrid ==
    /\ InitGridVars
    /\ PermIdle /\ MathIdle /\ DirIdle /\ Day1Idle /\ Day2Idle /\ Day3Idle
FrameGrid == UNCHANGED <<permVars, mathVars, dirVars, day1Vars, day2Vars, day3Vars>>
NextGrid ==
    \/ CallGet /\ FrameGrid
    \/ CallGetOrNone /\ FrameGrid
    \/ CallSet /\ FrameGrid
    \/ CallSwap /\ FrameGrid
    \/ CallSequence /\ FrameGrid
    \/ CallerResumes /\ FrameGrid
SpecGrid == InitGrid /\ [][NextGrid]_vars

InitPermute ==
    /\ InitPermVars
    /\ GridIdle /\ MathIdle /\ DirIdle /\ Day1Idle /\ Day2Idle /\ Day3Idle
FramePermute == UNCHANGED <<gridVars, mathVars, dirVars, day1Vars, day2Vars, day3Vars>>
NextPermute ==
    \/ PermuteLeaf /\ FramePermute
    \/ PermuteLoopStart /\ FramePermute
    \/ PermuteRecurse /\ FramePermute
    \/ PermutePop /\ FramePermute
    \/ PermuteLoopEnd /\ FramePermute
SpecPermute == InitPermute /\ [][NextPermute]_vars /\ WF_vars(NextPermute)

InitMath ==
    /\ InitMathVars
    /\ GridIdle /\ PermIdle /\ DirIdle /\ Day1Idle /\ Day2Idle /\ Day3Idle
FrameMath == UNCHANGED <<gridVars, permVars, dirVars, day1Vars, day2Vars, day3Vars>>
NextMath ==
    \/ GcdLoop /\ FrameMath
    \/ GcdReturnAB /\ FrameMath
    \/ GcdReturnBA /\ FrameMath
    \/ LcmReturn /\ FrameMath
SpecMath == InitMath /\ [][NextMath]_vars /\ WF_vars(NextMath)

InitDir ==
    /\ InitDirVars
    /\ GridIdle /\ PermIdle /\ MathIdle /\ Day1Idle /\ Day2Idle /\ Day3Idle
FrameDir == UNCHANGED <<gridVars, permVars, mathVars, day1Vars, day2Vars, day3Vars>>
NextDir ==
    \/ CallRotate /\ FrameDir
    \/ CallClockwise /\ FrameDir
    \/ CallCounterClockwise /\ FrameDir
SpecDir == InitDir /\ [][NextDir]_vars

InitDay1 ==
    /\ InitDay1Vars
    /\ GridIdle /\ PermIdle /\ MathIdle /\ DirIdle /\ Day2Idle /\ Day3Idle
FrameDay1 == UNCHANGED <<gridVars, permVars, mathVars, dirVars, day2Vars, day3Vars>>
NextDay1 ==
    \/ Day1Parse /\ FrameDay1
    \/ Day1Right /\ FrameDay1
    \/ Day1Left /\ FrameDay1
    \/ Day1NextLine /\ FrameDay1
SpecDay1 == InitDay1 /\ [][NextDay1]_vars

InitDay2 ==
    /\ InitDay2Vars
    /\ GridIdle /\ PermIdle /\ MathIdle /\ DirIdle /\ Day1Idle /\ Day3Idle
FrameDay2 == UNCHANGED <<gridVars, permVars, mathVars, dirVars, day1Vars, day3Vars>>
NextDay2 ==
    \/ Day2ReadRange /\ FrameDay2
    \/ Day2Test /\ FrameDay2
    \/ Day2RangeDone /\ FrameDay2
    \/ Day2Print /\ FrameDay2
SpecDay2 == InitDay2 /\ [][NextDay2]_vars

InitDay3 ==
    /\ InitDay3Vars
    /\ GridIdle /\ PermIdle /\ MathIdle /\ DirIdle /\ Day1Idle /\ Day2Idle
FrameDay3 == UNCHANGED <<gridVars, permVars, mathVars, dirVars, day1Vars, day2Vars>>
NextDay3 ==
    \/ Day3Pop /\ FrameDay3
    \/ Day3Append /\ FrameDay3
    \/ Day3Return /\ FrameDay3
SpecDay3 == InitDay3 /\ [][NextDay3]_vars

\* the repository as a whole: any one of its parts runs
Init ==
    \/ InitGrid
    \/ InitPermute
    \/ InitMath
    \/ InitDir
    \/ InitDay1
    \/ InitDay2
    \/ InitDay3
Next ==
    \/ NextGrid
    \/ NextPermute
    \/ NextMath
    \/ NextDir
    \/ NextDay1
    \/ NextDay2
    \/ NextDay3
Spec == Init /\ [][Next]_vars

(***************************************************************************)
(* Properties of the grid helpers (SpecGrid).                              *)
(***************************************************************************)

\* C1: swap(grid, x, y) with x or y out of bounds (isInBound false, negative
\* indices included) leaves every cell unchanged and raises no error.
C1_SwapOutOfBoundsIsNoop ==
    (gop = "swap" /\ ~(GridIsInbound(gprev, garg.x) /\ GridIsInbound(gprev, garg.y)))
        => (grid = gprev /\ gret.tag # "IndexError")

\* C2: getOrNone(grid, rc) returns what get(grid, r, c) returns when rc is in
\* bounds, and None, without failing, when rc is out of bounds (negative row
\* or column included).
C2_GetOrNoneMatchesBounds ==
    gop = "get_or_none" =>
        IF GridIsInbound(gprev, garg.x)
        THEN gret = GridGet(gprev, garg.x[1], garg.x[2]) /\ gret.tag = "value"
        ELSE gret = RetNone

\* C3: get(grid, r, c) and set(grid, r, c, v) with (r, c) not a valid
\* coordinate (negative indices included) fail with an out-of-bounds error,
\* and the failing set leaves the grid unchanged.
C3_GetSetRaiseOutOfBounds ==
    (gop \in {"get", "set"} /\ ~GridIsInbound(gprev, garg.x))
        => (gret.tag = "IndexError" /\ grid = gprev)

RowMajorBefore(p, q) == p[1] < q[1] \/ (p[1] = q[1] /\ p[2] < q[2])

\* C4: on a grid of equal-length rows (the empty grid included) sequence(grid)
\* yields exactly rows * cols coordinates, without repetition, in row-major
\* order, each of them in bounds.
C4_SequenceRowMajor ==
    gop = "sequence" =>
        LET s == gret.seq
            rows == Len(gprev)
            cols == IF rows = 0 THEN 0 ELSE Len(gprev[1])
        IN  /\ gret.tag = "coords"
            /\ Len(s) = rows * cols
            /\ \A i \in 1..Len(s) : GridIsInbound(gprev, s[i])
            /\ \A i \in 1..Len(s) : \A j \in 1..Len(s) :
                   i < j => RowMajorBefore(s[i], s[j])
            /\ grid = gprev

C4_Witness ==
    /\ gop = "sequence"
    /\ Len(gprev) = 2
    /\ Len(gprev[1]) = 2
    /\ gret.seq = << <<0, 0>>, <<0, 1>>, <<1, 0>>, <<1, 1>> >>

(***************************************************************************)
(* Properties of permute (SpecPermute).                                    *)
(***************************************************************************)
RECURSIVE Pow(_, _)
Pow(b, e) == IF e = 0 THEN 1 ELSE b * Pow(b, e - 1)

PermuteResultOk ==
    /\ Len(presult) = Pow(Len(pops), pmax)
    /\ \A i \in 1..Len(presult) : Len(presult[i]) = pmax
    /\ \A i \in 1..Len(presult) : \A j \in 1..Len(presult) :
           i # j => presult[i] # presult[j]
    /\ \A s \in [1..pmax -> Range(pops)] :
           \E i \in 1..Len(presult) : presult[i] = s
    /\ pcurr = <<>>

\* C5: permute called with an empty current sequence and an empty results
\* list terminates with results holding exactly |alphabet|^maxLength
\* sequences, each of length maxLength, pairwise distinct, covering every
\* sequence over the alphabet; on return the current sequence is empty again
\* and the alphabet is unchanged.
C5_PermuteCartesianPower ==
    /\ <>(ppc = "done")
    /\ [](ppc = "done" => PermuteResultOk)
    /\ [][pops' = pops]_vars

C5_Witness ==
    /\ ppc = "done"
    /\ Len(pops) = 2
    /\ pmax = 3
    /\ Len(presult) = 8
    /\ pcurr = <<>>

(***************************************************************************)
(* Properties of gcd and lcm (SpecMath).                                   *)
(***************************************************************************)
MathResultOk ==
    /\ mgab.tag = "value"
    /\ mgba.tag = "value"
    /\ mgab.val = mgba.val
    /\ mgab.val >= 0
    /\ (mb = 0 => mgab.val = Abs(ma))
    /\ ((ma # 0 /\ mb # 0) =>
           /\ mlcm.tag = "value"
           /\ mlcm.val * mgab.val = Abs(ma * mb))

\* C6: for all integers a and b (negative values included, floored modulo)
\* gcd terminates, gcd(a, b) = gcd(b, a), gcd(a, 0) = abs(a), the result is
\* non-negative, and for nonzero a, b lcm(a, b) * gcd(a, b) = abs(a * b).
C6_GcdLcmLaws ==
    /\ <>(mpc = "done")
    /\ [](mpc = "done" => MathResultOk)

C6_Witness ==
    /\ mpc = "done"
    /\ ma < 0
    /\ mb > 1
    /\ mgab.val > 1
    /\ mlcm.tag = "value"
    /\ mlcm.val * mgab.val = Abs(ma * mb)

(***************************************************************************)
(* Properties of Dir (SpecDir).                                            *)
(***************************************************************************)
Cycle == <<"UP", "RIGHT", "DOWN", "LEFT">>
CycleIndex(d) == CHOOSE i \in 1..4 : Cycle[i] = d

RECURSIVE NetTurns(_)
NetTurns(h) ==
    IF h = <<>> THEN 0
    ELSE NetTurns(Front(h)) + (IF Last(h) = "counter_clockwise" THEN -1 ELSE 1)

\* C7: rotate (and its alias clockwise) maps UP to RIGHT, RIGHT to DOWN, DOWN
\* to LEFT and LEFT to UP: a single four-cycle, so four rotations and no
\* fewer return any direction; counterClockwise and rotate are mutual
\* inverses, and neither reaches the unknown-direction error.
C7_DirFourCycle ==
    /\ dir \in Dirs
    /\ dir = Cycle[((CycleIndex(dstart) - 1 + NetTurns(dhist)) % 4) + 1]
    /\ Rotate(dir) = Cycle[(CycleIndex(dir) % 4) + 1]
    /\ Clockwise(dir) = Cycle[(CycleIndex(dir) % 4) + 1]
    /\ Rotate(Rotate(Rotate(Rotate(dir)))) = dir
    /\ Rotate(dir) # dir
    /\ Rotate(Rotate(dir)) # dir
    /\ Rotate(Rotate(Rotate(dir))) # dir
    /\ CounterClockwise(Rotate(dir)) = dir
    /\ Rotate(CounterClockwise(dir)) = dir

C7_Witness ==
    /\ dhist = <<"rotate", "rotate", "rotate", "rotate">>
    /\ dstart = "DOWN"
    /\ dir = "DOWN"

(***************************************************************************)
(* Properties of the day-2 script (SpecDay2).                              *)
(***************************************************************************)
\* a non-empty digit string X written twice in a row
IsTwice(str) ==
    LET half == Len(str) \div 2
    IN  /\ half >= 1
        /\ Len(str) = 2 * half
        /\ SubSeq(str, 1, half) = SubSeq(str, half + 1, 2 * half)

\* C8: the day-2 script adds to its sum exactly the ids of the ranges that
\* are of the form X repeated twice: is_invalid_id(n) is true if and only if
\* the decimal representation of n is a non-empty digit string written twice.
C8_SumsIdsRepeatedTwice ==
    [][(d2pc = "scan" /\ d2n <= d2end) =>
           /\ d2verdict' = IsTwice(Str(d2n))
           /\ d2sol' = d2sol + (IF IsTwice(Str(d2n)) THEN d2n ELSE 0)]_vars

(***************************************************************************)
(* Properties of best_k_digits_in_order (SpecDay3).                        *)
(***************************************************************************)
\* the subsequence of seq at the positions I, in the original order
RECURSIVE PickFrom(_, _, _)
PickFrom(seq, I, i) ==
    IF i > Len(seq) THEN <<>>
    ELSE (IF i \in I THEN <<seq[i]>> ELSE <<>>) \o PickFrom(seq, I, i + 1)

SubsequencesOfLength(seq, k) ==
    {PickFrom(seq, I, 1) : I \in {J \in SUBSET (1..Len(seq)) : Cardinality(J) = k}}

\* a <= b in the lexicographic order, for a and b of one length
RECURSIVE LexLeq(_, _)
LexLeq(a, b) ==
    IF a = <<>> THEN TRUE
    ELSE IF Head(a) # Head(b) THEN Head(a) < Head(b)
    ELSE LexLeq(Tail(a), Tail(b))

\* C9: for 0 <= k <= len(digits), best_k_digits_in_order(digits, k) returns
\* exactly k digits that form a subsequence of the input and are
\* lexicographically greatest among all its length-k subsequences; the
\* pops of the whole run never exceed len(digits) - k.
C9_BestKDigits ==
    d3k <= Len(d3digits) =>
        /\ d3pops <= Len(d3digits) - d3k
        /\ d3pc = "done" =>
               /\ Len(d3res) = d3k
               /\ d3res \in SubsequencesOfLength(d3digits, d3k)
               /\ \A s \in SubsequencesOfLength(d3digits, d3k) : LexLeq(s, d3res)

C9_Witness ==
    /\ d3pc = "done"
    /\ d3digits = <<1, 3, 2, 3>>
    /\ d3k = 2
    /\ d3res = <<3, 3>>
    /\ d3pops = 2

(***************************************************************************)
(* Properties of the day-1 dial script (SpecDay1).                         *)
(***************************************************************************)
\* the dial moved one click
OneClick(pos, direction) ==
    IF direction = "R"
    THEN (IF pos = DialSize - 1 THEN 0 ELSE pos + 1)
    ELSE (IF pos = 0 THEN DialSize - 1 ELSE pos - 1)

\* two runs of clicks, one after the other
Then(first, second) ==
    [pos |-> second.pos, zeros |-> first.zeros + second.zeros]

\* the dial moved n clicks, one at a time: where it is, and after how many
\* of the clicks it pointed at 0.  (The n single clicks are made as two runs,
\* which keeps the evaluation shallow.)
RECURSIVE Clicks(_, _, _)
Clicks(pos, direction, n) ==
    IF n = 0 THEN [pos |-> pos, zeros |-> 0]
    ELSE IF n = 1
    THEN LET q == OneClick(pos, direction)
         IN  [pos |-> q, zeros |-> IF q = 0 THEN 1 ELSE 0]
    ELSE CHOOSE both \in UNION {
             {Then(first, second) :
                 second \in {Clicks(first.pos, direction, n - (n \div 2))}} :
             first \in {Clicks(pos, direction, n \div 2)}} : TRUE

\* C10: from position 50 on the dial 0..99, every rotation (L or R, amount
\* >= 0) leaves start in 0..99 and equal to the position reached one click at
\* a time, and adds to sol the number of those clicks after which the dial
\* pointed at 0 (both directions, also when the rotation begins at 0).
C10_DialMatchesClicks ==
    [][d1pc = "parsed" =>
           LET moved == Clicks(d1start, d1dir, d1amt)
           IN  /\ d1start' \in 0..(DialSize - 1)
               /\ d1start' = moved.pos
               /\ d1sol' = d1sol + moved.zeros]_vars

C10_Witness ==
    /\ d1pc = "applied"
    /\ d1dir = "L"
    /\ d1amt = DialSize
    /\ d1start = 0
    /\ d1n = 2
    /\ d1sol = 2

====
